---- MODULE Spec2Model ----
(***************************************************************************)
(* A model of the harmonization engine of dmfrpro/iai_music:               *)
(* Note, Chord, KeyChords, Bar, Melody, Progression and the evolutionary   *)
(* search of src/DmitriiAlekhin.py, with the Note constructor of           *)
(* src/main.py beside it.  A Python exception is modelled as an error      *)
(* record that every caller propagates.                                    *)
(***************************************************************************)
EXTENDS Integers, Sequences, FiniteSets, TLC

VARIABLES
    \* ---- Note workbench (SpecNote)
    nop,        \* last operation applied on the workbench
    nargs,      \* <<midi_value, start_delay, playtime>> given to the constructor
    nres,       \* what the constructor gave: a Note or an error
    nother,     \* the second Note of a comparison
    neq,        \* result of nres == nother
    nk,         \* factor of the last change_octave
    noct,       \* nres.change_octave(nk)
    nback,      \* noct.change_octave(-nk)
    \* ---- Chord workbench (SpecChord)
    cop,        \* last operation applied on the workbench
    corig,      \* the root-position Chord that was constructed
    ccur,       \* the Chord the last inversion returned (or an error)
    cself,      \* the Chord the last inversion was called on, as it is after the call
    cbefore,    \* the same Chord as it was before the call
    chist,      \* the inversion calls made since construction, in order
    \* ---- KeyChords workbench (SpecKey)
    kop,        \* last operation applied on the workbench
    kargs,      \* <<melody notes, literal, mode>> given to the constructor
    kres,       \* what the constructor gave: a KeyChords or an error
    klabel,     \* str(kres)
    \* ---- Bar and Melody (SpecMelody)
    mel,        \* the Melody under construction: notes, bars and the loop's locals
    sbar,       \* a Bar of its own, appended to directly
    sraised,    \* whether the last append on sbar raised
    \* ---- Progression.crossover workbench (SpecCross)
    xop,        \* last operation applied on the workbench
    xparent1,   \* first parent
    xparent2,   \* second parent
    xprob,      \* prob, in tenths
    xrandom,    \* what random() returned for each gene, in tenths
    xchild,     \* the Progression returned
    \* ---- EvolutionaryAlgorithm.best_progression (SpecGA)
    gpc,        \* position in best_progression
    ginput,     \* which melody and key_chords it was called with
    gmemo,      \* chord list -> its fitness for that melody and key_chords
    gconf,      \* generation_limit, population_size, selection_factor
    population, \* the local population
    survived,   \* the local survived
    gen,        \* the loop variable i: generations completed
    refills,    \* iterations of the refill loop made in this generation
    result,     \* the Progression returned
    graised,    \* the exception that ended the call, "" if none
    init_best,  \* best fitness in the initial random population
    glast,      \* the last refill iteration of the generation: whether both
                \* parents were among the first selection_factor of survived,
                \* and the child as crossover returned it
    \* ---- Chord.fitness and Progression.fitness workbench (SpecFit)
    fop,        \* last operation applied on the workbench
    fkey,       \* the key_chords the fitness is taken against
    fmelody,    \* the melody the fitness is taken against
    fself,      \* the Chord or Progression whose fitness was taken
    fbar,       \* the playing_bar given to Chord.fitness
    fvalue,     \* the value returned
    fterms      \* the summands of the value the properties speak of

nvars == <<nop, nargs, nres, nother, neq, nk, noct, nback>>
cvars == <<cop, corig, ccur, cself, cbefore, chist>>
kvars == <<kop, kargs, kres, klabel>>
mvars == <<mel, sbar, sraised>>
xvars == <<xop, xparent1, xparent2, xprob, xrandom, xchild>>
gvars == <<gpc, ginput, gmemo, gconf, population, survived, gen, refills, result, graised,
           init_best, glast>>
fvars == <<fop, fkey, fmelody, fself, fbar, fvalue, fterms>>
vars == <<nvars, cvars, kvars, mvars, xvars, gvars, fvars>>

-----------------------------------------------------------------------------
(* Exceptions *)

Err(kind, msg) == [error |-> kind, msg |-> msg]
IsErr(x) == "error" \in DOMAIN x

(* The first error of a sequence of results, in evaluation order *)
FirstErr(s) == s[CHOOSE i \in 1..Len(s) : IsErr(s[i]) /\ \A j \in 1..(i - 1) : ~IsErr(s[j])]
AnyErr(s) == \E i \in 1..Len(s) : IsErr(s[i])

-----------------------------------------------------------------------------
(* class Note *)

NoteRec(midi_value, start_delay, playtime) ==
    [midi_value |-> midi_value,
     octave_value |-> midi_value % 12,
     start_delay |-> start_delay,
     playtime |-> playtime,
     octave |-> (midi_value - 12) \div 12]

(* Note.__init__ of src/DmitriiAlekhin.py *)
Note(midi_value, start_delay, playtime) ==
    IF ~(0 <= midi_value /\ midi_value <= 127)
    THEN Err("ValueError", "Cannot create note: invalid midi_value")
    ELSE IF playtime < 0
    THEN Err("ValueError", "Cannot create note: invalid playtime")
    ELSE IF start_delay < 0
    THEN Err("ValueError", "Cannot create note: invalid start_delay")
    ELSE NoteRec(midi_value, start_delay, playtime)

(* Note.__init__ of src/main.py: start_delay is not validated *)
Note_main(midi_value, start_delay, playtime) ==
    IF ~(0 <= midi_value /\ midi_value <= 127)
    THEN Err("ValueError", "Cannot create note: invalid midi_value")
    ELSE IF playtime < 0
    THEN Err("ValueError", "Cannot create note: invalid playtime")
    ELSE NoteRec(midi_value, start_delay, playtime)

change_octave(self, factor) ==
    Note(self.midi_value + 12 * factor, self.start_delay, self.playtime)

(* A variant comparing the whole pitch value *)
Note_eq_exact(self, other) == self.midi_value = other.midi_value

Note_eq(self, other) == self.octave_value = other.octave_value

Note_len(self) == self.start_delay + self.playtime

-----------------------------------------------------------------------------
(* class Mode *)

Mode == {"MAJOR", "MINOR", "DIM"}

ModeValue(mode) ==
    CASE mode = "MAJOR" -> <<0, 4, 7>>
      [] mode = "MINOR" -> <<0, 3, 7>>
      [] mode = "DIM" -> <<0, 3, 6>>

-----------------------------------------------------------------------------
(* class Chord *)

Chord(note, mode, playtime) ==
    LET value == ModeValue(mode)
        notes == [i \in 1..Len(value) |-> Note(value[i] + note.midi_value, 0, playtime)]
    IN  IF AnyErr(notes) THEN FirstErr(notes)
        ELSE [notes |-> notes, mode |-> mode, playtime |-> playtime, is_inverted |-> FALSE]

(* A variant that slices the notes of the fresh instance instead of self's *)
first_inverse_fresh(self) ==
    IF self.mode = "DIM" THEN Err("TypeError", "Chord is not invertible")
    ELSE LET instance == Chord(self.notes[1], self.mode, self.playtime)
             root == self.notes[1]
             moved == Note(root.midi_value + 12, root.start_delay, root.playtime)
         IN  IF IsErr(instance) THEN instance
             ELSE IF IsErr(moved) THEN moved
             ELSE [instance EXCEPT !.notes = Append(Tail(instance.notes), moved),
                                   !.is_inverted = TRUE]

first_inverse(self) ==
    IF self.mode = "DIM" THEN Err("TypeError", "Chord is not invertible")
    ELSE LET instance == Chord(self.notes[1], self.mode, self.playtime)
             root == self.notes[1]
             moved == Note(root.midi_value + 12, root.start_delay, root.playtime)
         IN  IF IsErr(instance) THEN instance
             ELSE IF IsErr(moved) THEN moved
             ELSE [instance EXCEPT !.notes = Append(Tail(self.notes), moved),
                                   !.is_inverted = TRUE]

(* A variant that inverts once before the octave shift *)
second_inverse_once(self) ==
    LET instance == first_inverse(self)
    IN  IF IsErr(instance) THEN instance
        ELSE LET notes == [i \in 1..Len(instance.notes) |->
                              change_octave(instance.notes[i], -1)]
             IN  IF AnyErr(notes) THEN FirstErr(notes)
                 ELSE [instance EXCEPT !.notes = notes]

second_inverse(self) ==
    LET once == first_inverse(self)
        instance == IF IsErr(once) THEN once ELSE first_inverse(once)
    IN  IF IsErr(instance) THEN instance
        ELSE LET notes == [i \in 1..Len(instance.notes) |->
                              change_octave(instance.notes[i], -1)]
             IN  IF AnyErr(notes) THEN FirstErr(notes)
                 ELSE [instance EXCEPT !.notes = notes]

(* What first_inverse leaves of self: notes[1:] is a copy and only the new
   instance is appended to and flagged, lines 218-223 *)
first_inverse_self(self) == self

(* What second_inverse leaves of self, lines 233-234 *)
second_inverse_self(self) == first_inverse_self(self)

Chord_eq(self, other) ==
    /\ Len(self.notes) = Len(other.notes)
    /\ \A i \in 1..Len(self.notes) : Note_eq(self.notes[i], other.notes[i])

PitchClasses(chord) == {chord.notes[i].octave_value : i \in 1..Len(chord.notes)}

-----------------------------------------------------------------------------
(* class KeyChords *)

MAJOR_STEPS == <<0, 2, 4, 5, 7, 9, 11>>
MINOR_STEPS == <<0, 2, 3, 5, 7, 8, 10>>
SHARP_LITERALS == <<"C", "C#", "D", "D#", "E", "F", "F#", "G", "C#", "A", "A#", "B">>
MAJOR_MODES == <<"MAJOR", "MINOR", "MINOR", "MAJOR", "MAJOR", "MINOR", "DIM">>
MINOR_MODES == <<"MINOR", "DIM", "MAJOR", "MINOR", "MAJOR", "MAJOR", "DIM">>

(* list.index(x): the 0-based position of the first element equal to x *)
ListIndex(list, x) ==
    IF \E i \in 1..Len(list) : list[i] = x
    THEN (CHOOSE i \in 1..Len(list) : list[i] = x /\ \A j \in 1..(i - 1) : list[j] # x) - 1
    ELSE -1

(* min(note.octave for note in notes), notes not empty *)
MinOctave(notes) ==
    CHOOSE o \in {notes[i].octave : i \in 1..Len(notes)} :
        \A i \in 1..Len(notes) : o <= notes[i].octave

Max(a, b) == IF a >= b THEN a ELSE b
Min(a, b) == IF a <= b THEN a ELSE b

(* [f(x) for x in list]: the results, an exception among them being what
   the comprehension raises (AnyErr, FirstErr) *)
Map(list, F(_)) == [i \in 1..Len(list) |-> F(list[i])]

(* [x for x in list if keep(x)] *)
Filter(list, Keep(_)) == SelectSeq(list, Keep)

(* A variant without the "is not Mode.DIM" filter *)
InvertedForPool_all(chords) == chords

(* The chords pool construction is asked to invert, lines 321-326 *)
InvertedForPool(chords) == Filter(chords, LAMBDA chord : chord.mode # "DIM")

KeyChords(melody_notes, literal, mode, playtime) ==
    IF melody_notes = <<>> THEN Err("ValueError", "min() arg is an empty sequence")
    ELSE IF ListIndex(SHARP_LITERALS, literal) < 0
    THEN Err("ValueError", "literal is not in list")
    ELSE
    LET min_octave == MinOctave(melody_notes)
        midi_value == ListIndex(SHARP_LITERALS, literal) + 12 * Max(min_octave - 1, 2)
        initial_note == Note(midi_value, 0, playtime)
        patterns == IF mode = "MAJOR" THEN MAJOR_MODES ELSE MINOR_MODES
        steps == IF mode = "MAJOR" THEN MAJOR_STEPS ELSE MINOR_STEPS
    IN  IF IsErr(initial_note) THEN initial_note
        ELSE IF Len(patterns) # Len(steps)
        THEN Err("ValueError", "Different lengths of patterns and steps")
        ELSE
        LET notes == Map(steps, LAMBDA i : Note(initial_note.midi_value + i, 0, playtime))
        IN  IF AnyErr(notes) THEN FirstErr(notes)
            ELSE
            LET chords == Map([i \in 1..Len(patterns) |-> i],
                              LAMBDA i : Chord(notes[i], patterns[i], playtime))
            IN  IF AnyErr(chords) THEN FirstErr(chords)
                ELSE
                LET perfect_chords == Filter(chords, LAMBDA chord : chord.mode = mode)
                    perfect_first_inverses == Map(perfect_chords, first_inverse)
                    perfect_second_inverses == Map(perfect_chords, second_inverse)
                    first_inverses == Map(InvertedForPool(chords), first_inverse)
                    second_inverses == Map(InvertedForPool(chords), second_inverse)
                IN  IF AnyErr(perfect_first_inverses) THEN FirstErr(perfect_first_inverses)
                    ELSE IF AnyErr(perfect_second_inverses)
                    THEN FirstErr(perfect_second_inverses)
                    ELSE IF AnyErr(first_inverses) THEN FirstErr(first_inverses)
                    ELSE IF AnyErr(second_inverses) THEN FirstErr(second_inverses)
                    ELSE [initial_note |-> initial_note,
                          mode |-> mode,
                          chords |-> chords \o first_inverses \o second_inverses,
                          perfect_chords |-> perfect_chords \o perfect_first_inverses
                                                \o perfect_second_inverses]

KeyChords_str(self) ==
    LET value == SHARP_LITERALS[self.initial_note.octave_value + 1]
    IN  IF self.mode = "MINOR" THEN value \o "m" ELSE value

-----------------------------------------------------------------------------
(* class Bar *)

TIME_SIGN == 384

Bar == [notes |-> <<>>, length |-> 0]

append_delay(self, delay) ==
    IF self.length + delay > TIME_SIGN
    THEN Err("ValueError", "Bar length overflow error")
    ELSE [self EXCEPT !.length = @ + delay]

append_note(self, note) ==
    IF self.length + Note_len(note) > TIME_SIGN
    THEN Err("ValueError", "Bar length overflow error")
    ELSE [notes |-> Append(self.notes, note),
          length |-> self.length + note.start_delay + note.playtime]

Bar_len(self) == self.length

-----------------------------------------------------------------------------
(* class Melody.  The constructor's loops run one iteration per step; the  *)
(* record holds self.notes, self.bars and the locals of __init__.          *)

RECURSIVE TotalLength(_)
TotalLength(notes) ==
    IF notes = <<>> THEN 0 ELSE Note_len(Head(notes)) + TotalLength(Tail(notes))

(* range(n) has no element for n <= 0 *)
RangeLen(n) == IF n > 0 THEN n ELSE 0

predicate(st) == st.bar_index # Len(st.bars) /\ st.note_index # Len(st.notes)

(* A variant that rounds the number of bars up, keeping a last bar that is
   only partly filled *)
Melody_init_ceil(notes) ==
    [pc |-> "outer",
     notes |-> notes,
     bars |-> [i \in 1..RangeLen((TotalLength(notes) + TIME_SIGN - 1) \div TIME_SIGN) |-> Bar],
     bar_index |-> 0,
     note_index |-> 0,
     start_delay |-> 0,
     playtime |-> 0,
     raised |-> ""]

(* lines 516-522: up to the first test of the outer while *)
Melody_init(notes) ==
    [pc |-> "outer",
     notes |-> notes,
     bars |-> [i \in 1..RangeLen(TotalLength(notes) \div TIME_SIGN) |-> Bar],
     bar_index |-> 0,
     note_index |-> 0,
     start_delay |-> 0,
     playtime |-> 0,
     raised |-> ""]

(* lines 524-528: the outer while's test and the loads of the current note *)
Melody_outer(st) ==
    IF predicate(st)
    THEN LET current_note == st.notes[st.note_index + 1]
         IN  [st EXCEPT !.pc = "delay",
                        !.start_delay = current_note.start_delay,
                        !.playtime = current_note.playtime]
    ELSE [st EXCEPT !.pc = "done"]

(* lines 530-538: one iteration of the start_delay loop *)
Melody_delay(st) ==
    IF st.start_delay # 0 /\ predicate(st)
    THEN LET remainder == TIME_SIGN - Bar_len(st.bars[st.bar_index + 1])
         IN  IF remainder = 0
             THEN [st EXCEPT !.bar_index = @ + 1]
             ELSE LET partial_playtime == Min(remainder, st.start_delay)
                      bar == append_delay(st.bars[st.bar_index + 1], partial_playtime)
                  IN  IF IsErr(bar)
                      THEN [st EXCEPT !.pc = "error", !.raised = bar.msg]
                      ELSE [st EXCEPT !.bars[st.bar_index + 1] = bar,
                                      !.start_delay = @ - partial_playtime]
    ELSE [st EXCEPT !.pc = "play"]

(* A variant that appends the whole remaining playtime without splitting *)
Melody_play_nosplit(st) ==
    IF st.playtime # 0 /\ predicate(st)
    THEN LET remainder == TIME_SIGN - Bar_len(st.bars[st.bar_index + 1])
         IN  IF remainder = 0
             THEN [st EXCEPT !.bar_index = @ + 1]
             ELSE LET partial_playtime == st.playtime
                      current_note == st.notes[st.note_index + 1]
                      part == Note(current_note.midi_value, 0, partial_playtime)
                      bar == IF IsErr(part) THEN part
                             ELSE append_note(st.bars[st.bar_index + 1], part)
                  IN  IF IsErr(bar)
                      THEN [st EXCEPT !.pc = "error", !.raised = bar.msg]
                      ELSE [st EXCEPT !.bars[st.bar_index + 1] = bar,
                                      !.playtime = @ - partial_playtime]
    ELSE [st EXCEPT !.pc = "outer", !.note_index = @ + 1]

(* lines 540-550: one iteration of the playtime loop, and note_index += 1 *)
Melody_play(st) ==
    IF st.playtime # 0 /\ predicate(st)
    THEN LET remainder == TIME_SIGN - Bar_len(st.bars[st.bar_index + 1])
         IN  IF remainder = 0
             THEN [st EXCEPT !.bar_index = @ + 1]
             ELSE LET partial_playtime == Min(remainder, st.playtime)
                      current_note == st.notes[st.note_index + 1]
                      part == Note(current_note.midi_value, 0, partial_playtime)
                      bar == IF IsErr(part) THEN part
                             ELSE append_note(st.bars[st.bar_index + 1], part)
                  IN  IF IsErr(bar)
                      THEN [st EXCEPT !.pc = "error", !.raised = bar.msg]
                      ELSE [st EXCEPT !.bars[st.bar_index + 1] = bar,
                                      !.playtime = @ - partial_playtime]
    ELSE [st EXCEPT !.pc = "outer", !.note_index = @ + 1]

Melody_step(st) ==
    CASE st.pc = "outer" -> Melody_outer(st)
      [] st.pc = "delay" -> Melody_delay(st)
      [] st.pc = "play" -> Melody_play(st)
      [] OTHER -> st

(* Melody(notes): the constructor run to its end *)
RECURSIVE Melody_run(_)
Melody_run(st) ==
    IF st.pc \in {"done", "error"} THEN st ELSE Melody_run(Melody_step(st))

Melody(notes) == Melody_run(Melody_init(notes))

-----------------------------------------------------------------------------
(* Chord.fitness.  The float weights 10e3 and 10e4 are whole numbers. *)

DISSONANT_DISTANCES == {0, 1, 2, 6, 9, 10, 11}
inverted_or_dim_chord_penalty == 400
Chord_perfect_chord_factor == 600
too_high_chord_factor == 10000
equal_note_factor == 600
Chord_distance_factor == 100000

Abs(x) == IF x < 0 THEN -x ELSE x

RECURSIVE SumSeq(_)
SumSeq(s) == IF s = <<>> THEN 0 ELSE Head(s) + SumSeq(Tail(s))

(* self in list *)
ChordIn(self, list) == \E i \in 1..Len(list) : Chord_eq(list[i], self)

(* lines 193-196: i and j are the 0-based loop indices *)
EqualNoteBonus(self, playing_bar) ==
    LET n == Len(self.notes)
        m == Len(playing_bar.notes)
    IN  SumSeq([k \in 1..(n * m) |->
            LET i == (k - 1) \div m
                j == (k - 1) % m
            IN  IF Note_eq(self.notes[i + 1], playing_bar.notes[j + 1])
                THEN equal_note_factor * (n - j)
                ELSE 0])

(* lines 198-201 *)
Distances(self, playing_bar) ==
    {Abs(playing_bar.notes[j].octave_value - self.notes[i].octave_value) :
        j \in 1..Len(playing_bar.notes), i \in 1..Len(self.notes)}

(* A variant asking every distance, instead of any, to be dissonant *)
DissonanceTerm_all(self, playing_bar) ==
    IF \A distance \in Distances(self, playing_bar) :
           Min(distance, Abs(12 - distance)) \in DISSONANT_DISTANCES
    THEN -Chord_distance_factor ELSE Chord_distance_factor

(* lines 203-205 *)
DissonanceTerm(self, playing_bar) ==
    IF \E distance \in Distances(self, playing_bar) :
           Min(distance, Abs(12 - distance)) \in DISSONANT_DISTANCES
    THEN -Chord_distance_factor ELSE Chord_distance_factor

Chord_fitness(self, key_chords, playing_bar) ==
    (IF self.is_inverted
     THEN -inverted_or_dim_chord_penalty ELSE inverted_or_dim_chord_penalty)
    + (IF self.mode = "DIM"
       THEN -inverted_or_dim_chord_penalty ELSE inverted_or_dim_chord_penalty)
    + (IF ChordIn(self, key_chords.perfect_chords)
       THEN Chord_perfect_chord_factor ELSE -Chord_perfect_chord_factor)
    + (IF \E i \in 1..Len(self.notes), j \in 1..Len(playing_bar.notes) :
              self.notes[i].octave_value > playing_bar.notes[j].octave_value
       THEN -too_high_chord_factor ELSE too_high_chord_factor)
    + EqualNoteBonus(self, playing_bar)
    + DissonanceTerm(self, playing_bar)

-----------------------------------------------------------------------------
(* class Progression.  A Progression is its chords list and the identity   *)
(* (oid) of the object holding it; random() is modelled in tenths.         *)

Progression_perfect_chord_factor == 10
equal_key_chords_penalty == 1000
equal_key_chords_factor == 7
preferred_distance == 5
Progression_distance_factor == 1000000
repetition_penalty == 100000000

crossover_prob == 2
mutate_invoke_prob == 1
mutate_swap_prob == 5

MaxMidi(chord) ==
    CHOOSE v \in {chord.notes[i].midi_value : i \in 1..Len(chord.notes)} :
        \A i \in 1..Len(chord.notes) : v >= chord.notes[i].midi_value

(* lines 432-433 at the 1-based index i: previous_chord is None at the first *)
RepetitionTerm(self, i) ==
    IF i > 1 /\ Chord_eq(self.chords[i], self.chords[i - 1])
    THEN -repetition_penalty ELSE 0

(* lines 416-436, for a Progression no longer than the melody has bars *)
Progression_fitness(self, key_chords, melody) ==
    SumSeq([i \in 1..Len(self.chords) |->
        Chord_fitness(self.chords[i], key_chords, melody.bars[i])
            * Progression_perfect_chord_factor
        + (IF self.chords[i].mode = key_chords.mode
           THEN equal_key_chords_factor ELSE -equal_key_chords_penalty)
        + (IF i > 1
           THEN IF Abs(MaxMidi(self.chords[i]) - MaxMidi(self.chords[i - 1]))
                       <= preferred_distance
                THEN Progression_distance_factor ELSE -Progression_distance_factor
           ELSE 0)
        + RepetitionTerm(self, i)])

(* random_progression: randint[i] is what randint(0, len(chords) - 1) gave *)
random_progression(key_chords, melody, randint, fresh) ==
    [oid |-> fresh,
     chords |-> [i \in 1..Len(melody.bars) |-> key_chords.chords[randint[i] + 1]]]

(* crossover writing the genes into parent1 and returning it *)
crossover_into_parent(parent1, parent2, prob, random, fresh) ==
    [oid |-> parent1.oid,
     chords |-> [i \in 1..Min(Len(parent1.chords), Len(parent2.chords)) |->
                    IF random[i] > prob THEN parent2.chords[i] ELSE parent1.chords[i]]]

(* crossover: random[i] is what random() gave for gene i *)
crossover(parent1, parent2, prob, random, fresh) ==
    [oid |-> fresh,
     chords |-> [i \in 1..Min(Len(parent1.chords), Len(parent2.chords)) |->
                    IF random[i] > prob THEN parent2.chords[i] ELSE parent1.chords[i]]]

Swap(list, i, j) == [list EXCEPT ![i] = list[j], ![j] = list[i]]

(* lines 386-389 from index i on (1-based) *)
RECURSIVE mutate_loop(_, _, _, _, _)
mutate_loop(chords, i, swap_prob, random, randint) ==
    IF i > Len(chords) THEN chords
    ELSE mutate_loop(IF random[i] > swap_prob
                     THEN Swap(chords, i, randint[i] + 1) ELSE chords,
                     i + 1, swap_prob, random, randint)

(* mutate copying the drawn chord over chord i instead of swapping the two *)
mutate_overwrite(self, invoke_prob, swap_prob, random0, random, randint) ==
    IF random0 < invoke_prob
    THEN [self EXCEPT !.chords = [i \in 1..Len(self.chords) |->
                                     IF random[i] > swap_prob
                                     THEN self.chords[randint[i] + 1]
                                     ELSE self.chords[i]]]
    ELSE self

(* mutate: the same object with its chords list changed in place *)
mutate(self, invoke_prob, swap_prob, random0, random, randint) ==
    IF random0 < invoke_prob
    THEN [self EXCEPT !.chords = mutate_loop(self.chords, 1, swap_prob, random, randint)]
    ELSE self

-----------------------------------------------------------------------------
(* Inputs of the Note workbench *)

NoteFrame == UNCHANGED <<cvars, kvars, mvars, xvars, gvars, fvars>>

MidiInputs == {-1, 0, 11, 12, 59, 60, 72, 116, 127, 128}
DelayInputs == {-1, 0, 96}
PlaytimeInputs == {-1, 0, 384}
MaxFactor == 2
Factors == (-MaxFactor)..MaxFactor

NoNote == NoteRec(0, 0, 0)

ValidNotes ==
    {Note(m, d, p) : m \in MidiInputs \cap 0..127,
                     d \in DelayInputs \cap Nat, p \in PlaytimeInputs \cap Nat}

NoteInit ==
    /\ nop = "init"
    /\ nargs = <<0, 0, 0>>
    /\ nres = NoNote
    /\ nother = NoNote
    /\ neq = FALSE
    /\ nk = 0
    /\ noct = NoNote
    /\ nback = NoNote

(* Note(midi_value, start_delay, playtime), src/DmitriiAlekhin.py *)
NoteNew ==
    \E m \in MidiInputs, d \in DelayInputs, p \in PlaytimeInputs :
        /\ NoteFrame
        /\ nop = "init"
        /\ nop' = "new"
        /\ nargs' = <<m, d, p>>
        /\ nres' = Note(m, d, p)
        /\ nother' = NoNote /\ neq' = FALSE /\ nk' = 0
        /\ noct' = NoNote /\ nback' = NoNote

(* Note(midi_value, start_delay, playtime), src/main.py *)
NoteNewMain ==
    \E m \in MidiInputs, d \in DelayInputs, p \in PlaytimeInputs :
        /\ NoteFrame
        /\ nop = "init"
        /\ nop' = "new_main"
        /\ nargs' = <<m, d, p>>
        /\ nres' = Note_main(m, d, p)
        /\ nother' = NoNote /\ neq' = FALSE /\ nk' = 0
        /\ noct' = NoNote /\ nback' = NoNote

(* nres == other *)
NoteCompare ==
    /\ NoteFrame
    /\ nop = "new"
    /\ ~IsErr(nres)
    /\ \E other \in ValidNotes :
        /\ nother' = other
        /\ neq' = Note_eq(nres, other)
    /\ nop' = "eq"
    /\ UNCHANGED <<nargs, nres, nk, noct, nback>>

(* nres.change_octave(k) *)
NoteChangeOctave ==
    /\ NoteFrame
    /\ nop = "new"
    /\ ~IsErr(nres)
    /\ \E k \in Factors :
        /\ nk' = k
        /\ noct' = change_octave(nres, k)
    /\ nop' = "octave"
    /\ UNCHANGED <<nargs, nres, nother, neq, nback>>

(* nres.change_octave(k).change_octave(-k) *)
NoteChangeBack ==
    /\ NoteFrame
    /\ nop = "octave"
    /\ ~IsErr(noct)
    /\ nback' = change_octave(noct, -nk)
    /\ nop' = "back"
    /\ UNCHANGED <<nargs, nres, nother, neq, nk, noct>>

NoteNext ==
    \/ NoteNew
    \/ NoteNewMain
    \/ NoteCompare
    \/ NoteChangeOctave
    \/ NoteChangeBack

-----------------------------------------------------------------------------
(* Inputs of the Chord workbench *)

ChordFrame == UNCHANGED <<nvars, kvars, mvars, xvars, gvars, fvars>>

RootInputs == {0, 5, 12, 48, 60, 100, 108, 113, 120, 121, 127}
MaxCalls == 4
DEFAULT_PLAYTIME == 384

NoChord == [notes |-> <<NoNote, NoNote, NoNote>>, mode |-> "MAJOR",
            playtime |-> 0, is_inverted |-> FALSE]

ChordInit ==
    /\ cop = "init"
    /\ corig = NoChord
    /\ ccur = NoChord
    /\ cself = NoChord
    /\ cbefore = NoChord
    /\ chist = <<>>

(* Chord(Note(root, 0, playtime), mode, playtime) *)
ChordNew ==
    \E root \in RootInputs, mode \in Mode :
        LET chord == Chord(Note(root, 0, DEFAULT_PLAYTIME), mode, DEFAULT_PLAYTIME)
        IN  /\ ChordFrame
            /\ cop = "init"
            /\ ~IsErr(chord)
            /\ cop' = "new"
            /\ corig' = chord
            /\ ccur' = chord
            /\ cself' = chord
            /\ cbefore' = chord
            /\ chist' = <<>>

(* ccur.first_inverse(): returns a new Chord, self is only read *)
ChordFirstInverse ==
    /\ ChordFrame
    /\ cop \in {"new", "first", "second"}
    /\ ~IsErr(ccur)
    /\ Len(chist) < MaxCalls
    /\ cop' = "first"
    /\ ccur' = first_inverse(ccur)
    /\ cself' = first_inverse_self(ccur)
    /\ cbefore' = ccur
    /\ chist' = Append(chist, "first")
    /\ UNCHANGED corig

(* ccur.second_inverse() *)
ChordSecondInverse ==
    /\ ChordFrame
    /\ cop \in {"new", "first", "second"}
    /\ ~IsErr(ccur)
    /\ Len(chist) < MaxCalls
    /\ cop' = "second"
    /\ ccur' = second_inverse(ccur)
    /\ cself' = second_inverse_self(ccur)
    /\ cbefore' = ccur
    /\ chist' = Append(chist, "second")
    /\ UNCHANGED corig

ChordNext ==
    \/ ChordNew
    \/ ChordFirstInverse
    \/ ChordSecondInverse

-----------------------------------------------------------------------------
(* Inputs of the KeyChords workbench *)

KeyFrame == UNCHANGED <<nvars, cvars, mvars, xvars, gvars, fvars>>

SeqsUpTo(S, n) == UNION {[1..k -> S] : k \in 0..n}

KeyLiterals == {"C", "C#", "D", "D#", "E", "F", "F#", "G", "G#", "A", "A#", "B"}
KeyModes == {"MAJOR", "MINOR"}
KeyPitchInputs == {0, 60, 84, 108, 127}
MaxKeyNotes == 2

NoKey == [initial_note |-> NoNote, mode |-> "MAJOR", chords |-> <<>>, perfect_chords |-> <<>>]

KeyInit ==
    /\ kop = "init"
    /\ kargs = <<<<>>, "", "">>
    /\ kres = NoKey
    /\ klabel = ""

(* KeyChords(melody, literal, mode) *)
KeyNew ==
    \E pitches \in SeqsUpTo(KeyPitchInputs, MaxKeyNotes), literal \in KeyLiterals,
       mode \in KeyModes :
        LET notes == [i \in 1..Len(pitches) |-> Note(pitches[i], 0, DEFAULT_PLAYTIME)]
        IN  /\ KeyFrame
            /\ kop = "init"
            /\ kop' = "new"
            /\ kargs' = <<notes, literal, mode>>
            /\ kres' = KeyChords(notes, literal, mode, DEFAULT_PLAYTIME)
            /\ klabel' = ""

(* str(kres) *)
KeyStr ==
    /\ KeyFrame
    /\ kop = "new"
    /\ ~IsErr(kres)
    /\ kop' = "str"
    /\ klabel' = KeyChords_str(kres)
    /\ UNCHANGED <<kargs, kres>>

KeyNext ==
    \/ KeyNew
    \/ KeyStr

-----------------------------------------------------------------------------
(* Inputs of Bar and Melody *)

MelodyFrame == UNCHANGED <<nvars, cvars, kvars, xvars, gvars, fvars>>

MelodyPitchInputs == {60, 64}
MelodyDelayInputs == {0, 100, 500}
MelodyPlaytimeInputs == {0, 200, 384, 700}
MaxNotes == 2
MaxBarNotes == 3
BarDelayInputs == {0, 100, 384, 500}

MelodyNoteInputs ==
    {Note(m, d, p) : m \in MelodyPitchInputs, d \in MelodyDelayInputs,
                     p \in MelodyPlaytimeInputs}

NoMelody ==
    [pc |-> "init", notes |-> <<>>, bars |-> <<>>, bar_index |-> 0, note_index |-> 0,
     start_delay |-> 0, playtime |-> 0, raised |-> ""]

MelodyInit ==
    /\ mel = NoMelody
    /\ sbar = Bar
    /\ sraised = FALSE

(* Melody(notes), up to the outer loop *)
MelodyNew ==
    /\ MelodyFrame
    /\ mel.pc = "init"
    /\ sbar = Bar /\ ~sraised
    /\ \E notes \in SeqsUpTo(MelodyNoteInputs, MaxNotes) : mel' = Melody_init(notes)
    /\ UNCHANGED <<sbar, sraised>>

MelodyOuter ==
    /\ MelodyFrame
    /\ mel.pc = "outer"
    /\ mel' = Melody_outer(mel)
    /\ UNCHANGED <<sbar, sraised>>

MelodyDelay ==
    /\ MelodyFrame
    /\ mel.pc = "delay"
    /\ mel' = Melody_delay(mel)
    /\ UNCHANGED <<sbar, sraised>>

MelodyPlay ==
    /\ MelodyFrame
    /\ mel.pc = "play"
    /\ mel' = Melody_play(mel)
    /\ UNCHANGED <<sbar, sraised>>

(* sbar.append_delay(delay): a raise leaves the Bar as it was *)
BarAppendDelay ==
    /\ MelodyFrame
    /\ mel.pc = "init"
    /\ \E delay \in BarDelayInputs :
        LET bar == append_delay(sbar, delay)
        IN  /\ sraised' = IsErr(bar)
            /\ sbar' = IF IsErr(bar) THEN sbar ELSE bar
    /\ UNCHANGED mel

(* sbar.append_note(note) *)
BarAppendNote ==
    /\ MelodyFrame
    /\ mel.pc = "init"
    /\ Len(sbar.notes) < MaxBarNotes
    /\ \E note \in MelodyNoteInputs :
        LET bar == append_note(sbar, note)
        IN  /\ sraised' = IsErr(bar)
            /\ sbar' = IF IsErr(bar) THEN sbar ELSE bar
    /\ UNCHANGED mel

MelodyNext ==
    \/ MelodyNew
    \/ MelodyOuter
    \/ MelodyDelay
    \/ MelodyPlay
    \/ BarAppendDelay
    \/ BarAppendNote

-----------------------------------------------------------------------------
(* Inputs of the Progression.crossover workbench *)

CrossFrame == UNCHANGED <<nvars, cvars, kvars, mvars, gvars, fvars>>

RandomOutcomes == {0, 3, 9}
CrossProbInputs == {0, 2, 10}
MaxLen == 2

NoProgression == [oid |-> 0, chords |-> <<>>]

(* Chords to build parents from: I and V of C major, root position *)
CrossChordInputs ==
    {Chord(Note(36, 0, DEFAULT_PLAYTIME), "MAJOR", DEFAULT_PLAYTIME),
     Chord(Note(43, 0, DEFAULT_PLAYTIME), "MAJOR", DEFAULT_PLAYTIME)}

CrossInit ==
    /\ xop = "init"
    /\ xparent1 = NoProgression
    /\ xparent2 = NoProgression
    /\ xprob = 0
    /\ xrandom = <<>>
    /\ xchild = NoProgression

(* Progression.crossover(parent1, parent2, prob) *)
CrossoverCall ==
    /\ CrossFrame
    /\ xop = "init"
    /\ \E chords1 \in SeqsUpTo(CrossChordInputs, MaxLen),
          chords2 \in SeqsUpTo(CrossChordInputs, MaxLen),
          prob \in CrossProbInputs :
        \E random \in [1..Min(Len(chords1), Len(chords2)) -> RandomOutcomes] :
            /\ xparent1' = [oid |-> 1, chords |-> chords1]
            /\ xparent2' = [oid |-> 2, chords |-> chords2]
            /\ xprob' = prob
            /\ xrandom' = random
            /\ xchild' = crossover(xparent1', xparent2', prob, random, 3)
    /\ xop' = "crossover"

CrossNext == CrossoverCall

-----------------------------------------------------------------------------
(* EvolutionaryAlgorithm.best_progression *)

GAFrame == UNCHANGED <<nvars, cvars, kvars, mvars, xvars, fvars>>

MaxPop == 4
MaxGen == 2

(* The generation limits best_progression is called with: no generation,
   and the most generations the model follows *)
GenerationLimits == {0, MaxGen}

(* The melody and key best_progression is called with: two bars in C major *)
GAMelodyInputs == <<<<Note(60, 0, 192), Note(64, 0, 192), Note(67, 0, 384)>>>>
GAKeyInputs == <<<<"C", "MAJOR">>>>

(* What randint(0, len(key_chords.chords) - 1) is taken to return: the
   tonic triad and its first inversion *)
RandintPool == {0, 7}

(* Every chord list a progression of the run can hold: random_progression
   draws its chords from the pool, crossover and mutate only move them *)
Reachable(key_chords, melody) ==
    [1..Len(melody.bars) -> {key_chords.chords[r + 1] : r \in RandintPool}]

(* p.fitness(key_chords, melody): fitness is a pure function of p.chords, so
   its values are computed once for the call and looked up afterwards *)
fitness(p, memo) == memo[p.chords]

(* sorted(list, key=..., reverse=True) from element i on, acc holding the
   pairs <<key, element>> of the elements before i in their final order.
   The sort is stable: an element goes behind every earlier element whose
   key is not smaller than its own *)
RECURSIVE sorted_from(_, _, _, _)
sorted_from(list, key, i, acc) ==
    IF i > Len(list) THEN [r \in 1..Len(acc) |-> acc[r][2]]
    ELSE LET k == key[i]
             m == Cardinality({j \in 1..Len(acc) : acc[j][1] >= k})
         IN  sorted_from(list, key, i + 1,
                         SubSeq(acc, 1, m) \o <<<<k, list[i]>>>> \o SubSeq(acc, m + 1, Len(acc)))

(* sorted(list, key=...) without reverse=True: ascending *)
sorted_ascending(list, key) ==
    sorted_from(list, [i \in 1..Len(list) |-> -key[i]], 1, <<>>)

sorted_reverse(list, key) == sorted_from(list, key, 1, <<>>)

sorted_population(list, f) ==
    sorted_reverse(list, [i \in 1..Len(list) |-> fitness(list[i], f)])

(* Object identities renamed to the place of the object's first occurrence:
   which objects are the same one is kept, the names stay small *)
Renamed(list) ==
    [i \in 1..Len(list) |->
        [list[i] EXCEPT !.oid = CHOOSE j \in 1..i :
            list[j].oid = list[i].oid /\ \A k \in 1..(j - 1) : list[k].oid # list[i].oid]]

(* list[0:n], n >= 0 *)
Slice(list, n) == SubSeq(list, 1, Min(n, Len(list)))

BestFitness(list, f) ==
    CHOOSE v \in {fitness(list[i], f) : i \in 1..Len(list)} :
        \A i \in 1..Len(list) : v >= fitness(list[i], f)

(* A write through one reference is seen through every reference to the
   same object *)
Stored(list, obj) == [i \in 1..Len(list) |-> IF list[i].oid = obj.oid THEN obj ELSE list[i]]

CrossoverOutcomes(parent1, parent2, fresh) ==
    {crossover(parent1, parent2, crossover_prob, random, fresh) :
        random \in [1..Min(Len(parent1.chords), Len(parent2.chords)) -> RandomOutcomes]}

MutateOutcomes(self) ==
    UNION {IF random0 < mutate_invoke_prob
           THEN {mutate(self, mutate_invoke_prob, mutate_swap_prob, random0, random, randint) :
                    random \in [1..Len(self.chords) -> RandomOutcomes],
                    randint \in [1..Len(self.chords) -> 0..(Len(self.chords) - 1)]}
           ELSE {mutate(self, mutate_invoke_prob, mutate_swap_prob, random0, <<>>, <<>>)} :
           random0 \in RandomOutcomes}

(* line 589: the pairs of positions sample(list, 2) can return, those with
   both positions among the first n when top, the others when not *)
SamplePairs(list, n, top) ==
    {q \in (1..Len(list)) \X (1..Len(list)) :
        q[1] # q[2] /\ (top <=> (q[1] <= n /\ q[2] <= n))}

(* line 590: what crossover(parent1, parent2) can return for the pairs *)
Crossed(list, pairs) ==
    UNION {CrossoverOutcomes(list[q[1]], list[q[2]], Len(list) + 1) : q \in pairs}

NoPick == [parents_in_top |-> TRUE, crossed |-> [oid |-> 0, chords |-> <<>>]]

NoInput == [melody |-> NoMelody, key_chords |-> NoKey]
NoConf == [generation_limit |-> 0, population_size |-> 0, selection_factor |-> 0]

GAInit ==
    /\ gpc = "init"
    /\ ginput = NoInput
    /\ gmemo = <<>>
    /\ gconf = NoConf
    /\ population = <<>>
    /\ survived = <<>>
    /\ gen = 0
    /\ refills = 0
    /\ result = NoProgression
    /\ graised = ""
    /\ glast = NoPick
    /\ init_best = 0

(* lines 689-697: the melody and the key_chords are built and
   best_progression is called with them and a configuration *)
GACall ==
    /\ GAFrame
    /\ gpc = "init"
    /\ \E f \in 1..Len(GAMelodyInputs) :
        ginput' = [melody |-> Melody(GAMelodyInputs[f]),
                   key_chords |-> KeyChords(GAMelodyInputs[f], GAKeyInputs[f][1],
                                            GAKeyInputs[f][2], DEFAULT_PLAYTIME)]
    /\ gmemo' = [chords \in Reachable(ginput'.key_chords, ginput'.melody) |->
                    Progression_fitness([oid |-> 0, chords |-> chords],
                                        ginput'.key_chords, ginput'.melody)]
    /\ \E generation_limit \in GenerationLimits, population_size \in 1..MaxPop :
        \E selection_factor \in 0..(population_size + 1) :
            gconf' = [generation_limit |-> generation_limit,
                      population_size |-> population_size,
                      selection_factor |-> selection_factor]
    /\ gpc' = "called"
    /\ UNCHANGED <<population, survived, gen, refills, result, graised, init_best, glast>>

(* line 581: the initial random population *)
GAStart ==
    /\ GAFrame
    /\ gpc = "called"
    /\ \E randint \in [1..gconf.population_size ->
                          [1..Len(ginput.melody.bars) -> RandintPool]] :
        population' = [k \in 1..gconf.population_size |->
                          random_progression(ginput.key_chords, ginput.melody,
                                             randint[k], k)]
    /\ init_best' = BestFitness(population', gmemo)
    /\ gpc' = "loop"
    /\ UNCHANGED <<ginput, gmemo, gconf, survived, gen, refills, result, graised, glast>>

(* lines 583-585: a generation starts *)
GAGeneration ==
    /\ GAFrame
    /\ gpc = "loop"
    /\ gen < gconf.generation_limit
    /\ population' = Renamed(sorted_population(population, gmemo))
    /\ survived' = Slice(population', gconf.selection_factor)
    /\ refills' = 0
    /\ gpc' = "refill"
    /\ glast' = NoPick
    /\ UNCHANGED <<ginput, gmemo, gconf, gen, result, graised, init_best>>

(* lines 587-590: one iteration of the refill loop *)
GARefill ==
    /\ GAFrame
    /\ gpc = "refill"
    /\ refills < gconf.population_size - gconf.selection_factor
    /\ \E random_index \in 0..(gconf.selection_factor - 1) : random_index < Len(survived)
    /\ Len(survived) >= 2
    /\ \E top \in BOOLEAN :
        \E crossed \in Crossed(survived, SamplePairs(survived, gconf.selection_factor, top)) :
            \E child \in MutateOutcomes(crossed) :
                /\ survived' = Append(Stored(survived, child), child)
                /\ glast' = [parents_in_top |-> top, crossed |-> crossed]
    /\ refills' = refills + 1
    /\ UNCHANGED <<gpc, ginput, gmemo, gconf, population, gen, result, graised, init_best>>

(* lines 588-589: randint(0, -1) and sample(survived, 2) of fewer than 2 raise *)
GARefillRaises ==
    /\ GAFrame
    /\ gpc = "refill"
    /\ refills < gconf.population_size - gconf.selection_factor
    /\ \/ gconf.selection_factor - 1 < 0
       \/ Len(survived) < 2
    /\ graised' = "ValueError"
    /\ gpc' = "error"
    /\ UNCHANGED <<ginput, gmemo, gconf, population, survived, gen, refills, result, init_best, glast>>

(* line 595: the generation ends *)
GAEndGeneration ==
    /\ GAFrame
    /\ gpc = "refill"
    /\ refills >= gconf.population_size - gconf.selection_factor
    /\ population' = survived
    /\ gen' = gen + 1
    /\ gpc' = "loop"
    /\ glast' = NoPick
    /\ UNCHANGED <<ginput, gmemo, gconf, survived, refills, result, graised, init_best>>

(* lines 597-599: the last sort and the return *)
GAFinish ==
    /\ GAFrame
    /\ gpc = "loop"
    /\ gen >= gconf.generation_limit
    /\ population' = Renamed(sorted_population(population, gmemo))
    /\ result' = population'[1]
    /\ gpc' = "done"
    /\ UNCHANGED <<ginput, gmemo, gconf, survived, gen, refills, graised, init_best, glast>>

GANext ==
    \/ GACall
    \/ GAStart
    \/ GAGeneration
    \/ GARefill
    \/ GARefillRaises
    \/ GAEndGeneration
    \/ GAFinish

-----------------------------------------------------------------------------
(* Chord.fitness and Progression.fitness *)

FitFrame == UNCHANGED <<nvars, cvars, kvars, mvars, xvars, gvars>>

MaxSliceNotes == 2
MaxChords == 2

(* The melody and key the fitness is taken against: two bars in C major *)
FitMelodyInput == <<Note(60, 0, 192), Note(64, 0, 192), Note(67, 0, 384)>>
FitKeyInput == <<"C", "MAJOR">>

(* Triads on every pitch class, in root position and inverted *)
FitRootInputs == 36..47
FitChordInputs ==
    LET roots == {Chord(Note(r, 0, DEFAULT_PLAYTIME), mode, DEFAULT_PLAYTIME) :
                     r \in FitRootInputs, mode \in Mode}
        invertible == {chord \in roots : chord.mode # "DIM"}
    IN  roots \cup {first_inverse(chord) : chord \in invertible}
              \cup {second_inverse(chord) : chord \in invertible}

(* The bar holding sub-Notes of the given pitch values, a quarter of the
   bar each *)
RECURSIVE BarOf(_)
BarOf(pitches) ==
    IF pitches = <<>> THEN Bar
    ELSE append_note(BarOf(SubSeq(pitches, 1, Len(pitches) - 1)),
                     Note(pitches[Len(pitches)], 0, TIME_SIGN \div 4))

(* Playing bars: up to MaxSliceNotes notes of any pitch class, and full bars
   of four notes *)
SlicePitchInputs == 60..71
FullSlicePitchInputs == {62, 64}
FitBarInputs ==
    {BarOf(pitches) : pitches \in SeqsUpTo(SlicePitchInputs, MaxSliceNotes)}
        \cup {BarOf(pitches) : pitches \in [1..4 -> FullSlicePitchInputs]}

FitInit ==
    /\ fop = "init"
    /\ fkey = NoKey
    /\ fmelody = NoMelody
    /\ fself = NoChord
    /\ fbar = Bar
    /\ fvalue = 0
    /\ fterms = <<>>

(* lines 689-696: the melody and the key_chords are built *)
FitSetup ==
    /\ FitFrame
    /\ fop = "init"
    /\ fmelody' = Melody(FitMelodyInput)
    /\ fkey' = KeyChords(FitMelodyInput, FitKeyInput[1], FitKeyInput[2], DEFAULT_PLAYTIME)
    /\ fop' = "ready"
    /\ UNCHANGED <<fself, fbar, fvalue, fterms>>

(* chord.fitness(key_chords, playing_bar) *)
FitChord ==
    /\ FitFrame
    /\ fop = "ready"
    /\ \E chord \in FitChordInputs, playing_bar \in FitBarInputs :
        /\ fself' = chord
        /\ fbar' = playing_bar
        /\ fvalue' = Chord_fitness(chord, fkey, playing_bar)
        /\ fterms' = [equal_note |-> EqualNoteBonus(chord, playing_bar),
                      dissonance |-> DissonanceTerm(chord, playing_bar)]
    /\ fop' = "chord"
    /\ UNCHANGED <<fkey, fmelody>>

(* progression.fitness(key_chords, melody), the progression of pool chords *)
FitProgression ==
    /\ FitFrame
    /\ fop = "ready"
    /\ \E chords \in SeqsUpTo({fkey.chords[i] : i \in 1..Len(fkey.chords)}, MaxChords) :
        LET progression == [oid |-> 1, chords |-> chords]
        IN  /\ Len(chords) <= Len(fmelody.bars)
            /\ fself' = progression
            /\ fvalue' = Progression_fitness(progression, fkey, fmelody)
            /\ fterms' = [repetition |-> [i \in 1..Len(chords) |->
                                             RepetitionTerm(progression, i)]]
    /\ fop' = "progression"
    /\ UNCHANGED <<fkey, fmelody, fbar>>

FitNext ==
    \/ FitSetup
    \/ FitChord
    \/ FitProgression

-----------------------------------------------------------------------------
(* Specifications *)

Init ==
    /\ NoteInit
    /\ ChordInit
    /\ KeyInit
    /\ MelodyInit
    /\ CrossInit
    /\ GAInit
    /\ FitInit

SpecNote == Init /\ [][NoteNext]_vars

SpecChord == Init /\ [][ChordNext]_vars

SpecKey == Init /\ [][KeyNext]_vars

SpecMelody == Init /\ [][MelodyNext]_vars

SpecCross == Init /\ [][CrossNext]_vars

SpecGA == Init /\ [][GANext]_vars

SpecFit == Init /\ [][FitNext]_vars

-----------------------------------------------------------------------------
(* Properties of Bar and Melody *)

RECURSIVE SumBarLengths(_)
SumBarLengths(bars) ==
    IF bars = <<>> THEN 0 ELSE Bar_len(Head(bars)) + SumBarLengths(Tail(bars))

(* C1: for every sequence of valid Notes, in every state during and after
   Melody construction, and after any sequence of append_delay/append_note
   calls on a Bar, each Bar's accumulated length is at most TIME_SIGN, the
   lengths sum to at most TIME_SIGN times the number of Bars, and the
   construction never raises 'Bar length overflow error'. *)
C1_BarCapacity ==
    /\ \A i \in 1..Len(mel.bars) : Bar_len(mel.bars[i]) <= TIME_SIGN
    /\ SumBarLengths(mel.bars) <= TIME_SIGN * Len(mel.bars)
    /\ mel.pc # "error"
    /\ Bar_len(sbar) <= TIME_SIGN

(* A two-note melody is constructed into two Bars, the second note split
   over their boundary. *)
C1_Witness ==
    /\ mel.pc = "done"
    /\ Len(mel.notes) = 2
    /\ Len(mel.bars) = 2
    /\ Len(mel.bars[1].notes) = 2
    /\ mel.bars[1].notes[2].midi_value = mel.bars[2].notes[1].midi_value
    /\ mel.bars[1].notes[1].midi_value # mel.bars[1].notes[2].midi_value

-----------------------------------------------------------------------------
(* Properties of Note *)

(* C6: Note(pitchValue, startDelay, duration) raises whenever pitchValue is
   outside [0, 127] or startDelay < 0 or duration < 0, and otherwise
   constructs a Note with pitch class pitchValue mod 12 holding the values
   as given (nothing is clamped). *)
C6_NoteValidation ==
    nop \in {"new", "new_main"} =>
        IF \/ ~(nargs[1] \in 0..127)
           \/ nargs[2] < 0
           \/ nargs[3] < 0
        THEN IsErr(nres)
        ELSE /\ ~IsErr(nres)
             /\ nres.octave_value = nargs[1] % 12
             /\ nres.midi_value = nargs[1]
             /\ nres.start_delay = nargs[2]
             /\ nres.playtime = nargs[3]

PitchInRange(v) == 0 <= v /\ v <= 127

(* C7 as stated: a == b iff the pitch values agree mod 12; change_octave(k)
   always returns a Note equal to the original; change_octave(k) then
   change_octave(-k) restores the pitch value. *)
C7_AsStated ==
    /\ nop = "eq" => (neq <=> (nres.midi_value % 12 = nother.midi_value % 12))
    /\ nop \in {"octave", "back"} => ~IsErr(noct) /\ Note_eq(noct, nres)
    /\ nop = "back" => ~IsErr(nback) /\ nback.midi_value = nres.midi_value

(* C7, amended: a == b iff the pitch values agree mod 12, whatever the
   octaves, start delays and playtimes; change_octave(k) returns a Note equal
   to the original, with the same start delay and playtime, whenever
   midi_value + 12k is within [0, 127], and raises otherwise; change_octave(k)
   then change_octave(-k) restores the original Note. *)
C7_OctaveEquality ==
    /\ nop = "eq" => (neq <=> (nres.midi_value % 12 = nother.midi_value % 12))
    /\ nop \in {"octave", "back"} =>
        IF PitchInRange(nres.midi_value + 12 * nk)
        THEN /\ ~IsErr(noct)
             /\ Note_eq(noct, nres)
             /\ noct.midi_value = nres.midi_value + 12 * nk
             /\ noct.start_delay = nres.start_delay
             /\ noct.playtime = nres.playtime
        ELSE IsErr(noct)
    /\ nop = "back" => ~IsErr(nback) /\ nback = nres

(* Two Notes an octave apart, with different delays and playtimes, compare
   equal. *)
C7_Witness ==
    /\ nop = "eq"
    /\ neq
    /\ nres.midi_value = 60 /\ nother.midi_value = 72
    /\ nres.start_delay # nother.start_delay
    /\ nres.playtime # nother.playtime

-----------------------------------------------------------------------------
(* Properties of Chord *)

Invertible(chord) == chord.mode \in {"MAJOR", "MINOR"}

(* C8: for a MAJOR or MINOR triad, the result of any sequence of
   first_inverse and second_inverse calls that stays within the pitch range
   has the pitch classes of the original triad and is_inverted set, and each
   call leaves the Chord it is called on as it was. *)
C8_InversionKeepsPitchClasses ==
    (cop \in {"first", "second"} /\ Invertible(corig)) =>
        /\ cself = cbefore
        /\ ~IsErr(ccur) =>
            /\ PitchClasses(ccur) = PitchClasses(corig)
            /\ ccur.is_inverted
            /\ ~corig.is_inverted

(* second_inverse applied twice to C major at 60 gives pitch classes {0,4,7}. *)
C8_Witness ==
    /\ chist = <<"second", "second">>
    /\ corig.mode = "MAJOR"
    /\ corig.notes[1].midi_value = 60
    /\ ~IsErr(ccur)
    /\ PitchClasses(ccur) = {0, 4, 7}
    /\ ccur.is_inverted

-----------------------------------------------------------------------------
(* Properties of KeyChords *)

Pitches(chord) == [i \in 1..Len(chord.notes) |-> chord.notes[i].midi_value]

(* C10: in every constructed pool the first 7 chords are the root-position
   triads of the scale degrees, chord i on tonic + steps[i] with pattern
   table[i]; the remaining chords are the first inversions, then the second
   inversions, of the degrees that are not DIM, in degree order; and
   construction never asks a DIM triad for an inversion (the one source of
   a TypeError). *)
C10_PoolLayout ==
    kop \in {"new", "str"} =>
        IF IsErr(kres) THEN kres.error # "TypeError"
        ELSE
        LET major == kargs[3] = "MAJOR"
            steps == IF major THEN <<0, 2, 4, 5, 7, 9, 11>> ELSE <<0, 2, 3, 5, 7, 8, 10>>
            table == IF major
                     THEN <<"MAJOR", "MINOR", "MINOR", "MAJOR", "MAJOR", "MINOR", "DIM">>
                     ELSE <<"MINOR", "DIM", "MAJOR", "MINOR", "MAJOR", "MAJOR", "DIM">>
            degrees == IF major THEN <<1, 2, 3, 4, 5, 6>> ELSE <<1, 3, 4, 5, 6>>
            n == Len(degrees)
            tonic == kres.initial_note.midi_value
            chords == kres.chords
            third(d) == IF table[d] = "MAJOR" THEN 4 ELSE 3
        IN  /\ Len(chords) = 7 + 2 * n
            /\ \A i \in 1..7 :
                /\ chords[i].mode = table[i]
                /\ ~chords[i].is_inverted
                /\ chords[i].notes[1].midi_value = tonic + steps[i]
                /\ Pitches(chords[i]) =
                       [j \in 1..3 |-> tonic + steps[i] + ModeValue(table[i])[j]]
            /\ \A j \in 1..n :
                LET d == degrees[j]
                    root == tonic + steps[d]
                IN  /\ table[d] # "DIM"
                    /\ chords[7 + j].mode = table[d]
                    /\ chords[7 + j].is_inverted
                    /\ Pitches(chords[7 + j]) = <<root + third(d), root + 7, root + 12>>
                    /\ chords[7 + n + j].mode = table[d]
                    /\ chords[7 + n + j].is_inverted
                    /\ Pitches(chords[7 + n + j]) = <<root + 7 - 12, root, root + third(d)>>

(* A minor-key pool of 17 chords, the DIM degrees 2 and 7 not inverted. *)
C10_Witness ==
    /\ kop = "new"
    /\ ~IsErr(kres)
    /\ kargs[3] = "MINOR"
    /\ Len(kres.chords) = 17
    /\ kres.chords[2].mode = "DIM"
    /\ kres.chords[9].mode = "MAJOR"

-----------------------------------------------------------------------------
(* Properties of Progression.crossover *)

Prefix(list, n) == SubSeq(list, 1, n)

(* C5: crossover(p1, p2, prob) returns a new Progression of length
   min(len(p1), len(p2)); with prob = 1.0 it is the first min(len) genes of
   p1 and with prob = 0.0 the first min(len) genes of p2, whatever random()
   returns. *)
C5_AsStated ==
    xop = "crossover" =>
        LET n == Min(Len(xparent1.chords), Len(xparent2.chords))
        IN  /\ Len(xchild.chords) = n
            /\ xchild.oid \notin {xparent1.oid, xparent2.oid}
            /\ xprob = 10 => xchild.chords = Prefix(xparent1.chords, n)
            /\ xprob = 0 => xchild.chords = Prefix(xparent2.chords, n)

-----------------------------------------------------------------------------
(* Properties of best_progression *)

ValidSelection(lo) ==
    /\ gpc # "init"
    /\ lo <= gconf.selection_factor
    /\ gconf.selection_factor <= gconf.population_size

(* C2: for 2 <= selection_factor <= population_size and any
   generation_limit, whatever the random source returns, best_progression
   raises nothing, the best fitness of the population is never below the best
   fitness of the initial random population, the survivors of a generation
   (the next population) are never worse than the population they are taken
   from, and the Progression returned has one chord per bar of the melody
   and a fitness at least that of every member of the initial population. *)
C2_BestNeverDecreases ==
    ValidSelection(2) =>
        /\ gpc # "error"
        /\ gpc \in {"loop", "refill", "done"} =>
                BestFitness(population, gmemo) >= init_best
        /\ gpc = "refill" =>
                BestFitness(survived, gmemo) >= BestFitness(population, gmemo)
        /\ gpc = "done" =>
                /\ Len(result.chords) = Len(ginput.melody.bars)
                /\ fitness(result, gmemo) >= init_best

(* A run of two generations with two survivors and two children a generation
   returns a Progression strictly fitter than every initial one. *)
C2_Witness ==
    /\ gpc = "done"
    /\ gconf.selection_factor = 2
    /\ gconf.population_size = 4
    /\ gen = 2
    /\ Len(result.chords) = 2
    /\ fitness(result, gmemo) > init_best

(* C3: best_progression called with selection_factor > population_size
   raises a configuration error before any generation step: no generation
   starts and no Progression is returned. *)
C3_AsStated ==
    (gpc # "init" /\ gconf.selection_factor > gconf.population_size) =>
        /\ gpc \notin {"refill", "done"}
        /\ gen = 0
        /\ result = NoProgression

(* C4: for 1 <= selection_factor <= population_size, whatever the random
   source returns, best_progression raises nothing, runs exactly
   generation_limit generations and returns a Progression whose fitness is
   the maximum over the final population. *)
C4_AsStated ==
    ValidSelection(1) =>
        /\ gpc # "error"
        /\ gen <= gconf.generation_limit
        /\ gpc = "done" =>
                /\ gen = gconf.generation_limit
                /\ fitness(result, gmemo) = BestFitness(population, gmemo)

-----------------------------------------------------------------------------
(* Properties of KeyChords: scale, literals, pitch range *)

Constructed == kop \in {"new", "str"}

(* The pitch classes of the 7 scale degrees of the key of a pool *)
ScalePitchClasses(key_chords) ==
    LET steps == IF key_chords.mode = "MAJOR" THEN MAJOR_STEPS ELSE MINOR_STEPS
    IN  {(key_chords.initial_note.midi_value + steps[i]) % 12 : i \in 1..Len(steps)}

(* C11: for every tonic and both modes every chord of KeyChords.chords is
   diatonic: the pitch class of each of its notes is one of the 7
   scale-degree pitch classes of the key. *)
C11_AsStated ==
    (Constructed /\ ~IsErr(kres)) =>
        \A i \in 1..Len(kres.chords) :
            PitchClasses(kres.chords[i]) \subseteq ScalePitchClasses(kres)

CANONICAL_LITERALS == <<"C", "C#", "D", "D#", "E", "F", "F#", "G", "G#", "A", "A#", "B">>

(* C12: for each of the 12 canonical pitch-class names and each mode the
   construction accepts the literal, the tonic's pitch class is the
   literal's semitone index 0..11, and str(KeyChords) is that literal, with
   'm' appended exactly when the mode is MINOR. *)
C12_AsStated ==
    Constructed =>
        /\ IsErr(kres) => kres.msg # "literal is not in list"
        /\ ~IsErr(kres) =>
                kres.initial_note.octave_value = ListIndex(CANONICAL_LITERALS, kargs[2])
        /\ kop = "str" =>
                klabel = IF kargs[3] = "MINOR" THEN kargs[2] \o "m" ELSE kargs[2]

(* C20: for every non-empty melody of valid Notes, every literal of the
   literal table and both modes, KeyChords construction raises nothing: the
   tonic, the scale-degree roots, the triad notes and the notes of the
   inversions built for the pool all stay within [0, 127]. *)
C20_AsStated ==
    (Constructed /\ kargs[1] # <<>> /\ ListIndex(SHARP_LITERALS, kargs[2]) >= 0) =>
        /\ ~IsErr(kres)
        /\ \A i \in 1..Len(kres.chords) : \A j \in 1..Len(kres.chords[i].notes) :
                PitchInRange(kres.chords[i].notes[j].midi_value)

-----------------------------------------------------------------------------
(* Properties of Chord.fitness and Progression.fitness *)

(* C15: Progression.fitness subtracts the repetition penalty at index i >= 1
   (0-based) exactly when chords[i] and chords[i-1] have the same set of
   pitch classes, one being an inversion of the other included, and never
   at index 0. *)
C15_AsStated ==
    fop = "progression" =>
        \A i \in 1..Len(fself.chords) :
            fterms.repetition[i] =
                IF i > 1 /\ PitchClasses(fself.chords[i]) = PitchClasses(fself.chords[i - 1])
                THEN -repetition_penalty ELSE 0

(* The pairs <<i, j>> (0-based) of a chord-tone slot and a slice note of the
   same pitch class *)
Matches(chord, playing_bar) ==
    {q \in (0..(Len(chord.notes) - 1)) \X (0..(Len(playing_bar.notes) - 1)) :
        chord.notes[q[1] + 1].octave_value = playing_bar.notes[q[2] + 1].octave_value}

RECURSIVE SumOver(_, _)
SumOver(S, weight) ==
    IF S = {} THEN 0
    ELSE LET q == CHOOSE x \in S : TRUE IN weight[q] + SumOver(S \ {q}, weight)

(* C16: in Chord.fitness every pitch-class match between the triad note in
   chord-tone slot i and a slice note adds equal_note_factor * (3 - i),
   whatever the slice holds and wherever in it the matching note sits, so a
   chord with a match gets a strictly positive bonus. *)
C16_AsStated ==
    fop = "chord" =>
        LET matches == Matches(fself, fbar)
        IN  /\ fterms.equal_note =
                   SumOver(matches, [q \in matches |-> equal_note_factor * (3 - q[1])])
            /\ matches # {} => fterms.equal_note > 0

CircularDistance(a, b) == Min((a - b) % 12, (b - a) % 12)

(* C19: with the dissonant distances [0,1,2,6,9,10,11], for every triad
   (MAJOR, MINOR or DIM, inverted or not) the dissonance term of
   Chord.fitness is -distance_factor for every slice holding a note, some
   triad note being at circular pitch-class distance 0, 1, 2 or 6 from a
   slice note, and +distance_factor only for a slice with no notes. *)
C19_DissonanceAlwaysPenalty ==
    fop = "chord" =>
        IF fbar.notes = <<>>
        THEN fterms.dissonance = Chord_distance_factor
        ELSE /\ fterms.dissonance = -Chord_distance_factor
             /\ \E i \in 1..Len(fself.notes), j \in 1..Len(fbar.notes) :
                    CircularDistance(fself.notes[i].octave_value,
                                     fbar.notes[j].octave_value) \in {0, 1, 2, 6}

(* A DIM triad against a one-note slice it shares no pitch class with: the
   penalty all the same. *)
C19_Witness ==
    /\ fop = "chord"
    /\ fself.mode = "DIM"
    /\ Len(fbar.notes) = 1
    /\ Matches(fself, fbar) = {}
    /\ fterms.dissonance = -Chord_distance_factor

-----------------------------------------------------------------------------
(* Segmentation of a Melody into bars *)

(* The tick at which the sound of notes[i] starts and the tick at which it
   ends, the notes laid end to end from tick 0 *)
SoundStart(notes, i) == TotalLength(SubSeq(notes, 1, i - 1)) + notes[i].start_delay
SoundEnd(notes, i) == TotalLength(SubSeq(notes, 1, i))

(* How many ticks of the sound of notes[i] fall into the k-th bar *)
TicksInBar(notes, i, k) ==
    Max(0, Min(SoundEnd(notes, i), k * TIME_SIGN)
             - Max(SoundStart(notes, i), (k - 1) * TIME_SIGN))

(* The sub-Notes the k-th bar is to hold: one for every note sounding in
   it, in input order, with the pitch of the note, no delay, and the ticks
   of the note that fall into the bar as playtime *)
SubNotes(notes, k) ==
    LET sounding == SelectSeq([i \in 1..Len(notes) |-> i],
                              LAMBDA i : TicksInBar(notes, i, k) > 0)
    IN  [j \in 1..Len(sounding) |->
            Note(notes[sounding[j]].midi_value, 0, TicksInBar(notes, sounding[j], k))]

(* C17: for every sequence of valid Notes of total length T, Melody
   construction ends without an error with exactly floor(T / TIME_SIGN)
   bars, each of accumulated length exactly TIME_SIGN (the trailing
   T mod TIME_SIGN ticks are dropped); every stored sub-Note has start_delay
   0 and the pitch of its source note, the sub-Notes are in input order, and
   the playtimes of the sub-Notes of a note are the ticks of its sound that
   fall into each bar, so they sum to its playtime when the note lies
   within the bars. *)
C17_Segmentation ==
    /\ mel.pc # "error"
    /\ mel.pc = "done" =>
        /\ Len(mel.bars) = TotalLength(mel.notes) \div TIME_SIGN
        /\ \A k \in 1..Len(mel.bars) :
            /\ Bar_len(mel.bars[k]) = TIME_SIGN
            /\ mel.bars[k].notes = SubNotes(mel.notes, k)

(* Two bars built from notes whose total length is no multiple of
   TIME_SIGN, a note being split over the bar boundary. *)
C17_Witness ==
    /\ mel.pc = "done"
    /\ Len(mel.bars) = 2
    /\ TotalLength(mel.notes) % TIME_SIGN # 0
    /\ Len(mel.bars[1].notes) + Len(mel.bars[2].notes) > Len(mel.notes)
    /\ mel.bars[1].notes[Len(mel.bars[1].notes)].midi_value = mel.bars[2].notes[1].midi_value

-----------------------------------------------------------------------------
(* The refill loop of a generation *)

(* C13: in every refill iteration of every generation step the two crossover
   parents are both among the top selection_factor ranked survivors of the
   generation; a child appended earlier in the same generation step is never
   a crossover parent. *)
C13_AsStated ==
    (gpc = "refill" /\ refills > 0) => glast.parents_in_top

DistinctObjects(list) ==
    \A i, j \in 1..Len(list) : i # j => list[i].oid # list[j].oid

(* The refill loop has left every individual it found where and as it was *)
SurvivorsKept ==
    /\ Slice(survived, gconf.selection_factor) = Slice(population, gconf.selection_factor)
    /\ DistinctObjects(survived)

(* C14: in every generation step the top selection_factor ranked Progressions
   stay in the list that becomes the next population, the same objects with
   the chords they were ranked with; no two individuals are the same object,
   so the in-place mutate of a child writes to no survivor, parent or earlier
   child; a refill iteration only appends; the next population is the list
   the refill loop built. *)
C14_ElitismUnchanged ==
    /\ [](gpc \in {"loop", "refill"} => DistinctObjects(population))
    /\ [](gpc = "refill" => SurvivorsKept)
    /\ []((gpc = "loop" /\ gen > 0) => population = survived)
    /\ [][(gpc = "refill" /\ gpc' = "refill") =>
            SubSeq(survived', 1, Len(survived)) = survived]_vars

(* In the second generation a child is mutated after two survivors were
   kept and an earlier child was appended. *)
C14_Witness ==
    /\ gpc = "refill"
    /\ gen = 1
    /\ gconf.selection_factor = 2
    /\ refills = 2
    /\ glast.crossed.chords # survived[Len(survived)].chords
    /\ SurvivorsKept

-----------------------------------------------------------------------------
(* The shape of the population *)

(* One chord per bar of the melody, every chord one of key_chords.chords *)
WellFormed(p) ==
    /\ Len(p.chords) = Len(ginput.melody.bars)
    /\ \A i \in 1..Len(p.chords) :
            \E k \in 1..Len(ginput.key_chords.chords) :
                p.chords[i] = ginput.key_chords.chords[k]

Count(list, x) == Cardinality({i \in 1..Len(list) : list[i] = x})

IsPermutation(a, b) ==
    /\ Len(a) = Len(b)
    /\ \A i \in 1..Len(a) : Count(a, a[i]) = Count(b, a[i])

(* C18: for 2 <= selection_factor <= population_size, the initial
   population and the population after every generation step hold exactly
   population_size Progressions, each with one chord per bar of the melody
   and every chord from key_chords.chords; the list a generation builds
   holds selection_factor Progressions and one more with every refill
   iteration, all of that shape; what crossover returns has that shape, and
   the child appended is the instance crossover returned with its chords
   permuted by mutate. *)
C18_PopulationShape ==
    ValidSelection(2) =>
        /\ gpc \in {"loop", "done"} => Len(population) = gconf.population_size
        /\ gpc \in {"loop", "refill", "done"} =>
                \A i \in 1..Len(population) : WellFormed(population[i])
        /\ gpc = "done" => WellFormed(result)
        /\ gpc = "refill" =>
                /\ Len(survived) = gconf.selection_factor + refills
                /\ \A i \in 1..Len(survived) : WellFormed(survived[i])
        /\ (gpc = "refill" /\ refills > 0) =>
                /\ WellFormed(glast.crossed)
                /\ survived[Len(survived)].oid = glast.crossed.oid
                /\ IsPermutation(survived[Len(survived)].chords, glast.crossed.chords)

(* The refill loop of a second generation has brought the list back to
   population_size, the last child with its two different chords swapped by
   mutate. *)
C18_Witness ==
    /\ ValidSelection(2)
    /\ gpc = "refill"
    /\ gen = 1
    /\ gconf.population_size = 4
    /\ Len(survived) = gconf.population_size
    /\ Len(glast.crossed.chords) = 2
    /\ glast.crossed.chords[1] # glast.crossed.chords[2]
    /\ survived[Len(survived)].chords = <<glast.crossed.chords[2], glast.crossed.chords[1]>>

=============================================================================
